---- MODULE Spec2Model ----
(***************************************************************************)
(* Model of blackbox_chat.py: the BlackBoxChat client.  One call of        *)
(* BlackBoxChat.chat is followed from the model-name lookup through the    *)
(* streamed chat request, the sources request run on a ThreadPoolExecutor  *)
(* worker, the merge of the two dictionaries and the exit of the `with`    *)
(* block.  Python strings are TLA+ strings, dictionaries are functions     *)
(* from keys to values, and a raised exception is a record with the        *)
(* exception class and its message.                                        *)
(***************************************************************************)
EXTENDS Integers, Sequences, FiniteSets, TLC

VARIABLES
    pc,                 \* position of the calling thread inside chat()
    query, model, prints,   \* the arguments of chat()
    chatServer,         \* what the /chat endpoint does when it is asked
    sourcesServer,      \* what the /check endpoint does when it is asked
    chat_model,         \* the resolved ChatModel member name
    requests,           \* the POSTs issued so far, in order
    cursor,             \* number of lines iter_lines has yielded so far
    streaming_response, \* the accumulator of _send_chat_request
    stdout,             \* the lines printed so far
    chat_response,      \* the dictionary returned by _send_chat_request
    worker,             \* state of the executor's worker thread
    future,             \* sources_future
    response_dict,      \* the dictionary chat() builds
    pending,            \* the exception travelling out of the with block
    outcome             \* what chat() handed to its caller

vars == <<pc, query, model, prints, chatServer, sourcesServer, chat_model,
          requests, cursor, streaming_response, stdout, chat_response,
          worker, future, response_dict, pending, outcome>>

(***************************************************************************)
(* Bounds of the model.                                                    *)
(***************************************************************************)
MaxLines == 2

(***************************************************************************)
(* Python values.                                                          *)
(***************************************************************************)
Unbound == "<unbound>"
UnboundDict == [unbound |-> TRUE]
EmptyDict == <<>>
NoException == [type |-> "", msg |-> ""]
Exc(type, msg) == [type |-> type, msg |-> msg]

\* an assignment in place of the merge
Update_Replace(d, e) == e

\* dict.update: the keys of e override those of d
Update(d, e) ==
    [k \in (DOMAIN d) \cup (DOMAIN e) |-> IF k \in DOMAIN e THEN e[k] ELSE d[k]]

(***************************************************************************)
(* Strings.                                                                *)
(***************************************************************************)
Char(s, i) == SubSeq(s, i, i)

LowerAlphabet == "abcdefghijklmnopqrstuvwxyz"
UpperAlphabet == "ABCDEFGHIJKLMNOPQRSTUVWXYZ"

UpperChar(c) ==
    IF \E i \in 1..26 : Char(LowerAlphabet, i) = c
    THEN Char(UpperAlphabet, CHOOSE i \in 1..26 : Char(LowerAlphabet, i) = c)
    ELSE c

\* str.upper left out of the lookup
upper_Identity(s) == s

RECURSIVE upper(_)
upper(s) ==
    IF s = "" THEN ""
    ELSE UpperChar(Char(s, 1)) \o upper(SubSeq(s, 2, Len(s)))

RECURSIVE Join(_, _)
Join(items, sep) ==
    IF items = <<>> THEN ""
    ELSE IF Len(items) = 1 THEN items[1]
    ELSE items[1] \o sep \o Join(Tail(items), sep)

Digits == "0123456789"

RECURSIVE IntToStr(_)
IntToStr(n) ==
    IF n < 10 THEN Char(Digits, n + 1)
    ELSE IntToStr(n \div 10) \o Char(Digits, (n % 10) + 1)

(***************************************************************************)
(* class ChatModel(Enum)                                                   *)
(***************************************************************************)
ChatModelNames ==
    <<"GPT_4O", "GEMINI_PRO", "CLAUDE_SONNET_35", "BLACKBOX_AI_PRO", "BLACKBOX_AI">>

ChatModel ==
    [GPT_4O |-> "gpt-4o",
     GEMINI_PRO |-> "gemini-pro",
     CLAUDE_SONNET_35 |-> "claude-sonnet-3.5",
     BLACKBOX_AI_PRO |-> "blackboxai-pro",
     BLACKBOX_AI |-> "blackboxai"]

(***************************************************************************)
(* class ChatConfig and BlackBoxChat.__init__                              *)
(***************************************************************************)
ChatConfig ==
    [max_tokens |-> 1024, deep_search_mode |-> TRUE,
     web_search_mode_prompt |-> TRUE, timeout |-> 30]

base_url == "https://www.blackbox.ai/api"

(***************************************************************************)
(* The inputs of chat() and the behaviours of the two endpoints.           *)
(***************************************************************************)
Queries == {"hi", "What is AI?"}

ModelInputs ==
    {"GPT_4O", "gpt_4o", "Gpt_4o",
     "GEMINI_PRO", "gemini_pro",
     "CLAUDE_SONNET_35", "claude_sonnet_35",
     "BLACKBOX_AI_PRO", "blackbox_ai_pro",
     "BLACKBOX_AI", "BlackBox_Ai",
     "", "gpt-4o", "GPT_4", "blackboxai", "GPT_4O "}

LineSet == {"", "Hello", "world"}

RECURSIVE SeqsUpTo(_, _)
SeqsUpTo(S, n) ==
    IF n = 0 THEN {<<>>}
    ELSE LET shorter == SeqsUpTo(S, n - 1)
         IN  shorter \cup {Append(s, x) : s \in {t \in shorter : Len(t) = n - 1}, x \in S}

LineSeqs == SeqsUpTo(LineSet, MaxLines)

\* "response": the endpoint answers with a status and a body;
\* "connect_error": scraper.post raises; "stream_error": the body breaks
\* off after the lines listed and iter_lines raises.
ChatServers ==
    [kind : {"response"}, status : {200, 500}, lines : LineSeqs, err : {""}]
    \cup [kind : {"stream_error"}, status : {200}, lines : LineSeqs, err : {"Connection broken"}]
    \cup [kind : {"connect_error"}, status : {0}, lines : {<<>>}, err : {"Read timed out"}]

SourceBodies == {"{\"refs\":[\"a\"]}", "{\"refs\":[]}", "<html>"}

SourcesServers ==
    [kind : {"response"}, status : {200, 404}, body : SourceBodies, err : {""}]
    \cup [kind : {"connect_error"}, status : {0}, body : {""}, err : {"Read timed out"}]

\* response.json(): the parsed body, or the decoder's error
JsonError == "Expecting value: line 1 column 1 (char 0)"
JsonParses(body) == body \in {"{\"refs\":[\"a\"]}", "{\"refs\":[]}"}
json(body) ==
    CASE body = "{\"refs\":[\"a\"]}" -> [refs |-> <<"a">>]
      [] body = "{\"refs\":[]}" -> [refs |-> <<>>]

(***************************************************************************)
(* Initial state: a constructed client, no call made yet.                  *)
(***************************************************************************)
Init ==
    /\ pc = "idle"
    /\ query = Unbound /\ model = Unbound /\ prints = FALSE
    /\ chatServer \in ChatServers
    /\ sourcesServer \in SourcesServers
    /\ chat_model = Unbound
    /\ requests = <<>>
    /\ cursor = 0
    /\ streaming_response = Unbound
    /\ stdout = <<>>
    /\ chat_response = UnboundDict
    /\ worker = "none"
    /\ future = [state |-> "none", result |-> EmptyDict, exception |-> NoException]
    /\ response_dict = UnboundDict
    /\ pending = NoException
    /\ outcome = [kind |-> "none", value |-> EmptyDict, exception |-> NoException]

Raise(e) == [kind |-> "raise", value |-> EmptyDict, exception |-> e]
Return(v) == [kind |-> "return", value |-> v, exception |-> NoException]

None == "None"

(***************************************************************************)
(* BlackBoxChat._send_sources_request                                      *)
(***************************************************************************)
sources_data(q) ==
    [query |-> q,
     messages |-> <<[content |-> q, role |-> "user", id |-> ""]>>,
     index |-> None]

SourcesRequest(q) ==
    [url |-> base_url \o "/check", json |-> sources_data(q),
     stream |-> FALSE, timeout |-> ChatConfig.timeout]

\* the except clause: every exception leaves as an APIRequestError
SourcesError(detail) == Exc("APIRequestError", "Sources request failed: " \o detail)

\* the status check left out: the body is parsed whatever the status
SourcesOutcome_NoStatusCheck(srv) ==
    IF JsonParses(srv.body)
    THEN [state |-> "finished", result |-> [sources |-> json(srv.body)],
          exception |-> NoException]
    ELSE [state |-> "finished", result |-> EmptyDict,
          exception |-> SourcesError(JsonError)]

\* what the function does with the response it received
SourcesOutcome(srv) ==
    IF srv.status = 200
    THEN IF JsonParses(srv.body)
         THEN [state |-> "finished", result |-> [sources |-> json(srv.body)],
               exception |-> NoException]
         ELSE [state |-> "finished", result |-> EmptyDict,
               exception |-> SourcesError(JsonError)]
    ELSE [state |-> "finished", result |-> EmptyDict,
          exception |-> SourcesError("Sources request failed with status code: "
                                        \o IntToStr(srv.status))]

\* the worker thread takes the submitted call and issues the POST
sources_post ==
    /\ worker = "queued"
    /\ requests' = Append(requests, SourcesRequest(query))
    /\ IF sourcesServer.kind = "connect_error"
       THEN /\ future' = [state |-> "finished", result |-> EmptyDict,
                          exception |-> SourcesError(sourcesServer.err)]
            /\ worker' = "waiting"
       ELSE /\ worker' = "responded"
            /\ UNCHANGED future
    /\ UNCHANGED <<pc, query, model, prints, chatServer, sourcesServer, chat_model,
                   cursor, streaming_response, stdout, chat_response,
                   response_dict, pending, outcome>>

\* the worker thread checks the status, parses the body and sets the future
sources_finish ==
    /\ worker = "responded"
    /\ future' = SourcesOutcome(sourcesServer)
    /\ worker' = "waiting"
    /\ UNCHANGED <<pc, query, model, prints, chatServer, sourcesServer, chat_model,
                   requests, cursor, streaming_response, stdout, chat_response,
                   response_dict, pending, outcome>>

(***************************************************************************)
(* BlackBoxChat._send_chat_request                                         *)
(***************************************************************************)
chat_data(q, m) ==
    [messages |-> <<[id |-> "", content |-> "@" \o ChatModel[m] \o " " \o q,
                     role |-> "user"]>>,
     id |-> "",
     previewToken |-> None,
     userId |-> None,
     codeModelMode |-> TRUE,
     agentMode |-> EmptyDict,
     trendingAgentMode |-> EmptyDict,
     isMicMode |-> FALSE,
     userSystemPrompt |-> None,
     maxTokens |-> ChatConfig.max_tokens,
     playgroundTopP |-> None,
     playgroundTemperature |-> None,
     isChromeExt |-> FALSE,
     githubToken |-> "",
     clickedAnswer2 |-> FALSE,
     clickedAnswer3 |-> FALSE,
     clickedForceWebSearch |-> FALSE,
     visitFromDelta |-> FALSE,
     mobileClient |-> FALSE,
     userSelectedModel |-> ChatModel[m],
     validated |-> "00f37b34-a166-4efb-bce5-1312d87f2f94",
     imageGenerationMode |-> FALSE,
     webSearchModePrompt |-> ChatConfig.web_search_mode_prompt,
     deepSearchMode |-> ChatConfig.deep_search_mode]

ChatRequest(q, m) ==
    [url |-> base_url \o "/chat", json |-> chat_data(q, m),
     stream |-> TRUE, timeout |-> ChatConfig.timeout]

\* the except clause: every exception leaves as an APIRequestError
ChatError(detail) == Exc("APIRequestError", "Chat request failed: " \o detail)

\* the newline left out of the accumulation
Accumulate_NoNewline(acc, value) ==
    IF value # "" THEN acc \o value ELSE acc

\* the body of the for loop over iter_lines
Accumulate(acc, value) ==
    IF value # "" THEN acc \o value \o "\n" ELSE acc

Echo(out, value, p) ==
    IF value # "" /\ p THEN Append(out, value) ELSE out

\* the status check left out: any response that ends cleanly is returned
ChatOutcome_NoStatusCheck(srv, text) ==
    IF srv.kind = "stream_error"
    THEN [kind |-> "raise", value |-> EmptyDict, exception |-> ChatError(srv.err)]
    ELSE [kind |-> "return", value |-> [streaming_response |-> text],
          exception |-> NoException]

\* what the function does once the stream has ended: "raise" with the
\* exception, or "return" with the dictionary
ChatOutcome(srv, text) ==
    IF srv.kind = "stream_error"
    THEN [kind |-> "raise", value |-> EmptyDict, exception |-> ChatError(srv.err)]
    ELSE IF srv.status = 200
    THEN [kind |-> "return", value |-> [streaming_response |-> text],
          exception |-> NoException]
    ELSE [kind |-> "raise", value |-> EmptyDict,
          exception |-> ChatError("Chat request failed with status code: "
                                     \o IntToStr(srv.status))]

(***************************************************************************)
(* BlackBoxChat.chat                                                       *)
(***************************************************************************)
\* the members' values listed in place of their names
ModelNotFoundMessage_Values(m) ==
    "Invalid model: " \o m \o ". Available models: "
        \o Join([i \in DOMAIN ChatModelNames |-> ChatModel[ChatModelNames[i]]], ", ")

ModelNotFoundMessage(m) ==
    "Invalid model: " \o m \o ". Available models: " \o Join(ChatModelNames, ", ")

\* the caller invokes chat(query, model, prints)
chat_call ==
    /\ pc = "idle"
    /\ \E q \in Queries, m \in ModelInputs, p \in BOOLEAN :
          /\ query' = q
          /\ model' = m
          /\ prints' = p
    /\ pc' = "resolve"
    /\ UNCHANGED <<chatServer, sourcesServer, chat_model, requests, cursor,
                   streaming_response, stdout, chat_response, worker, future,
                   response_dict, pending, outcome>>

\* chat_model = ChatModel[model.upper()], KeyError -> ModelNotFoundError;
\* response_dict = {}
chat_resolve ==
    /\ pc = "resolve"
    /\ IF upper(model) \in DOMAIN ChatModel
       THEN /\ chat_model' = upper(model)
            /\ response_dict' = EmptyDict
            /\ pc' = "chat_post"
            /\ UNCHANGED outcome
       ELSE /\ outcome' = Raise(Exc("ModelNotFoundError", ModelNotFoundMessage(model)))
            /\ pc' = "done"
            /\ UNCHANGED <<chat_model, response_dict>>
    /\ UNCHANGED <<query, model, prints, chatServer, sourcesServer, requests, cursor,
                   streaming_response, stdout, chat_response, worker, future,
                   pending>>

\* a second attempt after a failed POST
chat_post_Retry ==
    /\ pc = "chat_post"
    /\ requests' = Append(requests, ChatRequest(query, chat_model))
    /\ IF chatServer.kind = "connect_error"
       THEN IF Len(requests) = 0
            THEN /\ pc' = "chat_post"
                 /\ UNCHANGED <<outcome, streaming_response>>
            ELSE /\ outcome' = Raise(ChatError(chatServer.err))
                 /\ pc' = "done"
                 /\ UNCHANGED streaming_response
       ELSE /\ streaming_response' = ""
            /\ pc' = "chat_iter"
            /\ UNCHANGED outcome
    /\ UNCHANGED <<query, model, prints, chatServer, sourcesServer, chat_model, cursor,
                   stdout, chat_response, worker, future, response_dict, pending>>

\* _send_chat_request: build the payload and POST it
chat_post ==
    /\ pc = "chat_post"
    /\ requests' = Append(requests, ChatRequest(query, chat_model))
    /\ IF chatServer.kind = "connect_error"
       THEN /\ outcome' = Raise(ChatError(chatServer.err))
            /\ pc' = "done"
            /\ UNCHANGED streaming_response
       ELSE /\ streaming_response' = ""
            /\ pc' = "chat_iter"
            /\ UNCHANGED outcome
    /\ UNCHANGED <<query, model, prints, chatServer, sourcesServer, chat_model, cursor,
                   stdout, chat_response, worker, future, response_dict, pending>>

\* _send_chat_request: one turn of the loop over response.iter_lines
chat_iter_line ==
    /\ pc = "chat_iter"
    /\ cursor < Len(chatServer.lines)
    /\ LET value == chatServer.lines[cursor + 1]
       IN  /\ streaming_response' = Accumulate(streaming_response, value)
           /\ stdout' = Echo(stdout, value, prints)
    /\ cursor' = cursor + 1
    /\ UNCHANGED <<pc, query, model, prints, chatServer, sourcesServer, chat_model,
                   requests, chat_response, worker, future, response_dict,
                   pending, outcome>>

\* a failed chat request reported as an 'error' entry instead of raised
chat_finish_ErrorDict ==
    /\ pc = "chat_iter"
    /\ cursor = Len(chatServer.lines)
    /\ LET r == ChatOutcome(chatServer, streaming_response)
       IN  chat_response' = IF r.kind = "return" THEN r.value
                            ELSE [error |-> r.exception.msg]
    /\ pc' = "submit"
    /\ UNCHANGED <<query, model, prints, chatServer, sourcesServer, chat_model,
                   requests, cursor, streaming_response, stdout, worker, future,
                   response_dict, pending, outcome>>

\* _send_chat_request: the stream has ended; check the status and leave
chat_finish ==
    /\ pc = "chat_iter"
    /\ cursor = Len(chatServer.lines)
    /\ LET r == ChatOutcome(chatServer, streaming_response)
       IN  IF r.kind = "return"
           THEN /\ chat_response' = r.value
                /\ pc' = "submit"
                /\ UNCHANGED outcome
           ELSE /\ outcome' = r
                /\ pc' = "done"
                /\ UNCHANGED chat_response
    /\ UNCHANGED <<query, model, prints, chatServer, sourcesServer, chat_model,
                   requests, cursor, streaming_response, stdout, worker, future,
                   response_dict, pending>>

\* with ThreadPoolExecutor() as executor: executor.submit(...)
chat_submit ==
    /\ pc = "submit"
    /\ worker' = "queued"
    /\ future' = [state |-> "pending", result |-> EmptyDict, exception |-> NoException]
    /\ pc' = "check_error"
    /\ UNCHANGED <<query, model, prints, chatServer, sourcesServer, chat_model,
                   requests, cursor, streaming_response, stdout, chat_response,
                   response_dict, pending, outcome>>

\* if 'error' not in chat_response:
chat_check_error ==
    /\ pc = "check_error"
    /\ pc' = IF "error" \notin DOMAIN chat_response THEN "await_result" ELSE "update_chat"
    /\ UNCHANGED <<query, model, prints, chatServer, sourcesServer, chat_model,
                   requests, cursor, streaming_response, stdout, chat_response,
                   worker, future, response_dict, pending, outcome>>

\* the future's exception dropped and the chat result returned alone
chat_await_result_Degrade ==
    /\ pc = "await_result"
    /\ future.state = "finished"
    /\ response_dict' = IF future.exception # NoException THEN response_dict
                        ELSE Update(response_dict, future.result)
    /\ pc' = "update_chat"
    /\ UNCHANGED <<query, model, prints, chatServer, sourcesServer, chat_model,
                   requests, cursor, streaming_response, stdout, chat_response,
                   worker, future, pending, outcome>>

\* response_dict.update(sources_future.result()): blocks until the future
\* is set, then merges its result or re-raises its exception
chat_await_result ==
    /\ pc = "await_result"
    /\ future.state = "finished"
    /\ IF future.exception # NoException
       THEN /\ pending' = future.exception
            /\ pc' = "with_exit"
            /\ UNCHANGED response_dict
       ELSE /\ response_dict' = Update(response_dict, future.result)
            /\ pc' = "update_chat"
            /\ UNCHANGED pending
    /\ UNCHANGED <<query, model, prints, chatServer, sourcesServer, chat_model,
                   requests, cursor, streaming_response, stdout, chat_response,
                   worker, future, outcome>>

\* response_dict.update(chat_response)
chat_update ==
    /\ pc = "update_chat"
    /\ response_dict' = Update(response_dict, chat_response)
    /\ pc' = "with_exit"
    /\ UNCHANGED <<query, model, prints, chatServer, sourcesServer, chat_model,
                   requests, cursor, streaming_response, stdout, chat_response,
                   worker, future, pending, outcome>>

\* executor.shutdown(wait=False): the worker thread is not joined
chat_with_exit_NoWait ==
    /\ pc = "with_exit"
    /\ outcome' = IF pending # NoException THEN Raise(pending) ELSE Return(response_dict)
    /\ pc' = "done"
    /\ UNCHANGED <<query, model, prints, chatServer, sourcesServer, chat_model,
                   requests, cursor, streaming_response, stdout, chat_response,
                   worker, future, response_dict, pending>>

\* the with block's exit: executor.shutdown(wait=True) lets the worker run
\* the submitted call to its end and joins the thread; then the pending
\* exception leaves chat(), or chat() returns response_dict
chat_with_exit ==
    /\ pc = "with_exit"
    /\ worker = "waiting"
    /\ worker' = "joined"
    /\ outcome' = IF pending # NoException THEN Raise(pending) ELSE Return(response_dict)
    /\ pc' = "done"
    /\ UNCHANGED <<query, model, prints, chatServer, sourcesServer, chat_model,
                   requests, cursor, streaming_response, stdout, chat_response,
                   future, response_dict, pending>>

Next ==
    \/ chat_call
    \/ chat_resolve
    \/ chat_post
    \/ chat_iter_line
    \/ chat_finish
    \/ chat_submit
    \/ chat_check_error
    \/ chat_await_result
    \/ chat_update
    \/ chat_with_exit
    \/ sources_post
    \/ sources_finish

Spec == Init /\ [][Next]_vars

(***************************************************************************)
(* Vocabulary of the properties.                                           *)
(***************************************************************************)
\* index of the first occurrence of sub in s, 0 when there is none
Find(s, sub) ==
    LET hits == {i \in 1..(Len(s) - Len(sub) + 1) : SubSeq(s, i, i + Len(sub) - 1) = sub}
    IN  IF hits = {} THEN 0 ELSE CHOOSE i \in hits : \A j \in hits : i <= j

Contains(s, sub) == Find(s, sub) # 0

StartsWith(s, pre) == Len(s) >= Len(pre) /\ SubSeq(s, 1, Len(pre)) = pre

RECURSIVE Split(_, _)
Split(s, sep) ==
    LET i == Find(s, sep)
    IN  IF i = 0 THEN <<s>>
        ELSE <<SubSeq(s, 1, i - 1)>> \o Split(SubSeq(s, i + Len(sep), Len(s)), sep)

LowerChar(c) ==
    IF \E i \in 1..26 : Char(UpperAlphabet, i) = c
    THEN Char(LowerAlphabet, CHOOSE i \in 1..26 : Char(UpperAlphabet, i) = c)
    ELSE c

\* s spells the key k, each letter in either case
IsCasingOf(s, k) ==
    /\ Len(s) = Len(k)
    /\ \A i \in 1..Len(k) : Char(s, i) \in {Char(k, i), LowerChar(Char(k, i))}

ValidNames == DOMAIN ChatModel
Called == pc \notin {"idle"}
Resolved == pc \notin {"idle", "resolve"}
InvalidName == Called /\ upper(model) \notin ValidNames

\* the names a ModelNotFoundError message lists after "Available models: "
ListedNames(msg) ==
    LET marker == "Available models: "
        at == Find(msg, marker)
    IN  IF at = 0 THEN <<>>
        ELSE Split(SubSeq(msg, at + Len(marker), Len(msg)), ", ")

Occurrences(items, x) == Cardinality({i \in DOMAIN items : items[i] = x})

ChatUrl == "https://www.blackbox.ai/api/chat"
CheckUrl == "https://www.blackbox.ai/api/check"
PostsTo(url) == {i \in DOMAIN requests : requests[i].url = url}

ChatAsked == PostsTo(ChatUrl) # {}
ChatFails ==
    \/ chatServer.kind \in {"connect_error", "stream_error"}
    \/ chatServer.status # 200
ChatSucceeded == "streaming_response" \in DOMAIN chat_response
SourcesFails ==
    \/ sourcesServer.kind = "connect_error"
    \/ sourcesServer.status # 200
    \/ ~JsonParses(sourcesServer.body)
Finished == outcome.kind # "none"

\* every non-empty line followed by one newline, in order
ExpectedText(lines) ==
    LET kept == SelectSeq(lines, LAMBDA l : l # "")
    IN  Join([i \in DOMAIN kept |-> kept[i] \o "\n"], "")

(***************************************************************************)
(* C1: a model name that, upper-cased, is not a member name of ChatModel   *)
(* makes chat raise ModelNotFoundError; the message lists every member     *)
(* name exactly once; and no POST, to /chat or to /check, has been issued. *)
(***************************************************************************)
C1_UnknownModelRejected ==
    InvalidName =>
        /\ requests = <<>>
        /\ worker = "none"
        /\ Resolved =>
              /\ outcome.kind = "raise"
              /\ outcome.exception.type = "ModelNotFoundError"
              /\ \A n \in ValidNames :
                    Occurrences(ListedNames(outcome.exception.msg), n) = 1

C1_Witness ==
    /\ model = "gpt-4o"
    /\ pc = "done"
    /\ outcome.exception.type = "ModelNotFoundError"

(***************************************************************************)
(* C2: a member name of ChatModel written in any letter case resolves to   *)
(* that member without ModelNotFoundError, and the member's value is the   *)
(* id of the chat request: the message content starts with "@<id> " and    *)
(* userSelectedModel is <id>.                                              *)
(***************************************************************************)
C2_AnyCasingResolves ==
    \A k \in ValidNames :
        (Resolved /\ IsCasingOf(model, k)) =>
            /\ chat_model = k
            /\ outcome.exception.type # "ModelNotFoundError"
            /\ pc # "chat_post" =>
                  /\ PostsTo(ChatUrl) = {1}
                  /\ requests[1].json.userSelectedModel = ChatModel[k]
                  /\ requests[1].json.messages[1].content
                        = "@" \o ChatModel[k] \o " " \o query
                  /\ k = "GPT_4O" => requests[1].json.userSelectedModel = "gpt-4o"
                  /\ k = "BLACKBOX_AI" => requests[1].json.userSelectedModel = "blackboxai"

C2_Witness ==
    /\ model = "BlackBox_Ai"
    /\ pc = "done"
    /\ outcome.kind = "return"
    /\ requests[1].json.userSelectedModel = "blackboxai"

(***************************************************************************)
(* C3: when the chat endpoint answers 200, the streaming_response field is *)
(* the concatenation, in arrival order, of every non-empty line received,  *)
(* each followed by one newline; lines "Hello", "world" give               *)
(* "Hello\nworld\n".                                                       *)
(***************************************************************************)
C3_StreamedTextIsLinesWithNewlines ==
    /\ ChatSucceeded =>
          chat_response.streaming_response = ExpectedText(chatServer.lines)
    /\ outcome.kind = "return" =>
          /\ outcome.value.streaming_response = ExpectedText(chatServer.lines)
          /\ chatServer.lines = <<"Hello", "world">> =>
                outcome.value.streaming_response = "Hello\nworld\n"
          /\ chatServer.lines = <<"", "world">> =>
                outcome.value.streaming_response = "world\n"

C3_Witness ==
    /\ outcome.kind = "return"
    /\ chatServer.lines = <<"", "world">>
    /\ outcome.value.streaming_response = "world\n"

(***************************************************************************)
(* C4: when the chat endpoint answers with a status other than 200, or the *)
(* transport fails, chat raises APIRequestError with the status code or    *)
(* the transport's error in its message, whatever the sources endpoint     *)
(* would do, and no record is returned.                                    *)
(***************************************************************************)
C4_ChatFailureRaises ==
    (ChatAsked /\ ChatFails) =>
        /\ outcome.kind # "return"
        /\ pc = "done" =>
              /\ outcome.kind = "raise"
              /\ outcome.exception.type = "APIRequestError"
              /\ chatServer.kind = "response" =>
                    /\ Contains(outcome.exception.msg, IntToStr(chatServer.status))
                    /\ chatServer.status = 500 => Contains(outcome.exception.msg, "500")
              /\ chatServer.kind # "response" =>
                    Contains(outcome.exception.msg, chatServer.err)

C4_Witness ==
    /\ pc = "done"
    /\ chatServer.kind = "response" /\ chatServer.status = 500
    /\ ~SourcesFails
    /\ outcome.exception.type = "APIRequestError"

(***************************************************************************)
(* C5: when the chat request succeeds and the sources request fails (a     *)
(* status other than 200, a transport error, or a body that is not JSON),  *)
(* chat raises the sources request's APIRequestError and returns no        *)
(* record.                                                                 *)
(***************************************************************************)
C5_SourcesFailurePropagates ==
    (ChatSucceeded /\ SourcesFails) =>
        /\ outcome.kind # "return"
        /\ pc = "done" =>
              /\ outcome.kind = "raise"
              /\ outcome.exception.type = "APIRequestError"
              /\ StartsWith(outcome.exception.msg, "Sources request failed: ")

C5_Witness ==
    /\ pc = "done"
    /\ ChatSucceeded
    /\ sourcesServer.kind = "response" /\ sourcesServer.status = 404
    /\ outcome.kind = "raise"

(***************************************************************************)
(* C6: when the chat request succeeds and the sources endpoint answers 200 *)
(* with a JSON body B, the record chat returns holds the accumulated text  *)
(* and a sources field equal to B.                                         *)
(***************************************************************************)
C6_ResultHasTextAndSources ==
    (pc = "done" /\ ChatSucceeded /\ ~SourcesFails) =>
        /\ outcome.kind = "return"
        /\ DOMAIN outcome.value = {"streaming_response", "sources"}
        /\ outcome.value.streaming_response = ExpectedText(chatServer.lines)
        /\ sourcesServer.body = "{\"refs\":[\"a\"]}" =>
              outcome.value.sources = [refs |-> <<"a">>]
        /\ sourcesServer.body = "{\"refs\":[]}" =>
              outcome.value.sources = [refs |-> <<>>]

C6_Witness ==
    /\ pc = "done"
    /\ outcome.kind = "return"
    /\ sourcesServer.body = "{\"refs\":[\"a\"]}"
    /\ outcome.value.sources = [refs |-> <<"a">>]
    /\ outcome.value.streaming_response = "Hello\nworld\n"

(***************************************************************************)
(* C7: every record chat returns has the streaming_response field, and it  *)
(* has the sources field only when the sources request succeeded and the   *)
(* chat result carries no error entry.                                     *)
(***************************************************************************)
C7_RecordShape ==
    outcome.kind = "return" =>
        /\ "streaming_response" \in DOMAIN outcome.value
        /\ "sources" \in DOMAIN outcome.value =>
              /\ ~SourcesFails
              /\ future.state = "finished"
              /\ future.exception = NoException
              /\ "error" \notin DOMAIN chat_response

C7_Witness ==
    /\ outcome.kind = "return"
    /\ "sources" \in DOMAIN outcome.value
    /\ sourcesServer.status = 200
    /\ chatServer.lines = <<>>

(***************************************************************************)
(* C8: the two requests of one call never overlap: the sources request is  *)
(* handed to the worker only after the chat request has returned with its  *)
(* stream drained, and it is never issued when the chat request fails.     *)
(***************************************************************************)
C8_SourcesOnlyAfterChat ==
    /\ (worker # "none" \/ PostsTo(CheckUrl) # {}) =>
          /\ pc \notin {"idle", "resolve", "chat_post", "chat_iter", "submit"}
          /\ ChatSucceeded
          /\ cursor = Len(chatServer.lines)
          /\ \A i \in PostsTo(CheckUrl) : \E j \in PostsTo(ChatUrl) : j < i
    /\ ChatFails => (worker = "none" /\ future.state = "none" /\ PostsTo(CheckUrl) = {})

C8_Witness ==
    /\ worker = "responded"
    /\ pc = "check_error"
    /\ Len(chatServer.lines) = MaxLines
    /\ PostsTo(CheckUrl) = {2}

(***************************************************************************)
(* C9: when chat returns a record or raises, the sources request it        *)
(* submitted has finished, with a result or an exception, and the worker   *)
(* thread has been joined.                                                 *)
(***************************************************************************)
C9_WorkerJoinedBeforeReturn ==
    Finished =>
        /\ worker \in {"none", "joined"}
        /\ future.state \in {"none", "finished"}
        /\ PostsTo(CheckUrl) # {} => (worker = "joined" /\ future.state = "finished")

C9_Witness ==
    /\ Finished
    /\ outcome.kind = "raise"
    /\ worker = "joined"
    /\ future.exception.type = "APIRequestError"

(***************************************************************************)
(* C10: one call of chat sends at most one POST to /chat and at most one   *)
(* POST to /check, whether the requests succeed, are answered with another *)
(* status, or fail in transport.                                           *)
(***************************************************************************)
C10_NoRetry ==
    /\ Cardinality(PostsTo(ChatUrl)) <= 1
    /\ Cardinality(PostsTo(CheckUrl)) <= 1
    /\ Len(requests) <= 2

C10_Witness ==
    /\ pc = "done"
    /\ chatServer.kind = "connect_error"
    /\ outcome.kind = "raise"
    /\ Len(requests) = 1

====
